---- MODULE Spec2Model ----
(***************************************************************************)
(* Model of oci-tag-auditor (src/main.go): main() starts one goroutine per *)
(* non-DEFAULT profile of the OCI config file; each goroutine runs         *)
(* ExecuteFullSearch, which creates up to three CSV reports, pages through *)
(* the resource search API and appends one row per resource.               *)
(*                                                                         *)
(* Abstractions:                                                           *)
(*  - a time instant is an integer number of seconds; the layout           *)
(*    "20060102_150405" has one-second resolution, so the timestamp token  *)
(*    of an instant is the instant itself;                                 *)
(*  - a continuation cursor (OpcNextPage) is the index of the page it      *)
(*    designates, 0 standing for nil;                                      *)
(*  - a csv.Writer is its buffer of rows; the buffer reaches the file only *)
(*    on Flush (the reports of the model stay below the buffer size);      *)
(*  - every call that returns an error in the source may fail here, the    *)
(*    outcome being an input of the action that makes the call.            *)
(***************************************************************************)
EXTENDS Integers, Sequences, FiniteSets, TLC

\* ------------------------------------------------------------------ bounds
MaxPages == 2      \* pages in the feed of the scanned region
MaxRecords == 2    \* records in the whole feed of the scanned region
MaxClock == 1      \* seconds the clock may advance during a run

\* ------------------------------------------------------- optional values
Nil == <<>>                     \* a nil pointer
Some(v) == <<v>>                \* a pointer to v
Deref(p) == p[1]

\* --------------------------------------------------------- tag values
\* A defined-tag value is an interface{}: its dynamic type and its value.
\* A value that is not a string carries its JSON text.
Str(s) == [type |-> "string", val |-> s]
Num(s) == [type |-> "float64", val |-> s]
Bool(s) == [type |-> "bool", val |-> s]
EmptyMap == [k \in {} |-> Nil]
\* A nil map, told apart from the empty map (no namespace is named "nil").
NilMap == [nil |-> TRUE]

\* Names in the order sort.Strings / encoding/json would put them.
NameOrder ==
  <<"CREATEDBY", "CreatedBy", "Ops", "Oracle-Tags", "Owner", "createdby", "env">>

\* strings.ToLower restricted to the names of the model (EqualFold folds case).
Fold(s) ==
  CASE s = "CreatedBy" -> "createdby"
    [] s = "CREATEDBY" -> "createdby"
    [] s = "Oracle-Tags" -> "oracle-tags"
    [] s = "Ops" -> "ops"
    [] s = "Owner" -> "owner"
    [] OTHER -> s

\* strings.EqualFold
EqualFold(a, b) == Fold(a) = Fold(b)

\* Keys of a map in sorted order.
SortedKeys(m) == SelectSeq(NameOrder, LAMBDA k : k \in DOMAIN m)

RECURSIVE JoinWith(_, _)
\* strings.Join(parts, sep)
JoinWith(parts, sep) ==
  IF Len(parts) = 0 THEN ""
  ELSE IF Len(parts) = 1 THEN parts[1]
  ELSE parts[1] \o sep \o JoinWith(Tail(parts), sep)

\* json.Marshal of one tag value
JsonValue(v) ==
  IF v.type = "string" THEN "\"" \o v.val \o "\"" ELSE v.val

\* json.Marshal of one namespace: an object with the keys sorted
JsonNamespace(ns) ==
  LET keys == SortedKeys(ns)
      parts == [i \in 1..Len(keys) |-> "\"" \o keys[i] \o "\":" \o JsonValue(ns[keys[i]])]
  IN "{" \o JoinWith(parts, ",") \o "}"

\* DefinedTagsToString: json.Marshal(dt); a nil or empty map is not an error.
DefinedTagsToString(dt) ==
  IF dt = NilMap THEN "null"
  ELSE LET keys == SortedKeys(dt)
           parts == [i \in 1..Len(keys) |-> "\"" \o keys[i] \o "\":" \o JsonNamespace(dt[keys[i]])]
       IN "{" \o JoinWith(parts, ",") \o "}"

\* FreeformTagsToString: "k=v" parts, sorted, joined with ", ".
FreeformTagsToString(tags) ==
  IF tags = NilMap \/ DOMAIN tags = {} THEN ""
  ELSE LET keys == SortedKeys(tags)
           parts == [i \in 1..Len(keys) |-> keys[i] \o "=" \o tags[keys[i]]]
       IN JoinWith(parts, ", ")

\* len(definedTags): a nil map has length 0.
LenTags(dt) == IF dt = NilMap THEN 0 ELSE Cardinality(DOMAIN dt)

\* hasCreatedByTag that compares the key with == and takes any value.
hasCreatedByTag_ExactKeyAnyValue(definedTags) ==
  IF LenTags(definedTags) = 0 THEN FALSE
  ELSE \E ns \in DOMAIN definedTags :
         \E key \in DOMAIN definedTags[ns] : key = "CreatedBy"

\* hasCreatedByTag
hasCreatedByTag(definedTags) ==
  IF LenTags(definedTags) = 0 THEN FALSE
  ELSE \E ns \in DOMAIN definedTags :
         \E key \in DOMAIN definedTags[ns] :
           /\ EqualFold(key, "CreatedBy")
           /\ definedTags[ns][key].type = "string"
           /\ definedTags[ns][key].val # ""

\* int(x / 24) for an integer number of hours x: truncation toward zero.
TruncDiv(x, d) == IF x >= 0 THEN x \div d ELSE -((-x) \div d)

\* formatTimeCreated with the day count rounded toward negative infinity.
formatTimeCreated_Floor(sdkTime, now) ==
  IF sdkTime = Nil THEN <<"N/A", "N/A">>
  ELSE LET createdTime == Deref(sdkTime)
       IN <<ToString(createdTime), ToString((now - createdTime) \div 86400)>>

\* formatTimeCreated: the formatted instant and the days since creation.
formatTimeCreated(sdkTime, now) ==
  IF sdkTime = Nil THEN <<"N/A", "N/A">>
  ELSE LET createdTime == Deref(sdkTime)
           hours == TruncDiv(now - createdTime, 3600)
       IN <<ToString(createdTime), ToString(TruncDiv(hours, 24))>>

\* getStringValue
getStringValue(ptr) == IF ptr = Nil THEN "" ELSE Deref(ptr)

\* The header row of every report.
headers ==
  << "Region", "Display Name", "Resource Type", "Identifier", "Compartment ID",
     "Lifecycle State", "Time Created (UTC)", "Days Since Creation",
     "Availability Domain", "Defined Tags", "Freeform Tags" >>

\* The row of one resource.
Row(section, resource, now) ==
  LET t == formatTimeCreated(resource.TimeCreated, now)
  IN << section,
        getStringValue(resource.DisplayName),
        getStringValue(resource.ResourceType),
        getStringValue(resource.Identifier),
        getStringValue(resource.CompartmentId),
        getStringValue(resource.LifecycleState),
        t[1], t[2],
        getStringValue(resource.AvailabilityDomain),
        DefinedTagsToString(resource.DefinedTags),
        FreeformTagsToString(resource.FreeformTags) >>


\* ------------------------------------------------------------ the inputs
Regions == {"r1", "r2"}          \* the profiles a config file of the model may name

\* resourcesearch.ResourceSummary: the fields ExecuteFullSearch reads.
Resource(id, dt) ==
  [ DisplayName |-> Nil, ResourceType |-> Nil, Identifier |-> Some(id),
    CompartmentId |-> Nil, LifecycleState |-> Nil, TimeCreated |-> Nil,
    AvailabilityDomain |-> Nil, DefinedTags |-> dt, FreeformTags |-> NilMap ]

ResUntagged == Resource("ocid1.a", EmptyMap)
ResNoOwner == Resource("ocid1.b", [ns \in {"Oracle-Tags"} |-> [k \in {"CreatedBy"} |-> Str("")]])
ResOwned == Resource("ocid1.c", [ns \in {"Oracle-Tags"} |-> [k \in {"createdby"} |-> Str("alice")]])
Resources == {ResUntagged, ResNoOwner, ResOwned}

\* A resource with defined tags dt, and one created at instant created.
Tagged(dt) == Resource("ocid1.t", dt)
CreatedAt(created) == [Resource("ocid1.d", EmptyMap) EXCEPT !.TimeCreated = Some(created)]

\* Defined-tag maps: nil, empty, a namespace without keys, one namespace with
\* one key, one namespace with two keys, two namespaces.
TagNamespaces == {"Oracle-Tags", "Ops"}
TagKeys == {"CreatedBy", "CREATEDBY", "createdby", "Owner"}
TagValues == {Str("alice"), Str(""), Num("42"), Bool("true")}
OneKeyMaps == {[ns \in {n} |-> [k \in {key} |-> v]] : n \in TagNamespaces, key \in TagKeys, v \in TagValues}
TagMaps ==
  {NilMap, EmptyMap, [ns \in {"Ops"} |-> EmptyMap]}
  \cup OneKeyMaps
  \cup {[ns \in {"Ops"} |-> [k \in {"Owner", "CreatedBy"} |-> IF k = "Owner" THEN Str("bob") ELSE v]] : v \in TagValues}
  \cup {[ns \in TagNamespaces |-> IF ns = "Ops" THEN [k \in {"env"} |-> Str("prod")] ELSE [k \in {"createdby"} |-> v]] : v \in TagValues}

\* Creation instants, in seconds from the instant the scan runs at: in the
\* past and in the future, on and off a whole number of days.
SecondsPerDay == 86400
CreationTimes ==
  {0, -3600, 3600, -(SecondsPerDay - 1), SecondsPerDay - 1, -SecondsPerDay, SecondsPerDay,
   -(SecondsPerDay + 3600), SecondsPerDay + 3600, -(3 * SecondsPerDay), 3 * SecondsPerDay}

\* The resources of the one-record feeds.
Probes == {Tagged(dt) : dt \in TagMaps} \cup {CreatedAt(c) : c \in CreationTimes}

RECURSIVE CountRecords(_)
\* Number of records in a feed (a sequence of pages).
CountRecords(feed) ==
  IF Len(feed) = 0 THEN 0 ELSE Len(Head(feed)) + CountRecords(Tail(feed))

\* The pages a search response may carry, and the feeds of the scanned region.
Pages == UNION {[1..n -> Resources] : n \in 0..MaxRecords}
Feeds == {f \in UNION {[1..p -> Pages] : p \in 1..MaxPages} : CountRecords(f) <= MaxRecords}

\* The feeds of the two regions of a two-profile run.
FeedR1 == << <<ResUntagged>>, <<ResOwned>> >>
FeedR2 == << <<ResNoOwner>> >>

\* A run: the sections of the config file (ini.Load puts DEFAULT first) and
\* the inventory the search API serves for each region.
Runs ==
  {[sections |-> <<"DEFAULT", "r1">>, inventory |-> [r \in Regions |-> IF r = "r1" THEN f ELSE << <<>> >>]] : f \in Feeds}
  \cup {[sections |-> <<"DEFAULT", "r1">>, inventory |-> [r \in Regions |-> IF r = "r1" THEN << <<x>> >> ELSE << <<>> >>]] : x \in Probes}
  \cup {[sections |-> <<"DEFAULT", "r1", "r2">>, inventory |-> [r \in Regions |-> IF r = "r1" THEN FeedR1 ELSE FeedR2]]}

\* -------------------------------------------------------------- the state
VARIABLES
  createMissingTagsFile,  \* flag -missing-tags
  createNoOwnerFile,      \* flag -no-owner
  sections,               \* cfg.Sections(): the section names, in order
  inventory,              \* per region, the pages the search API serves
  clock,                  \* time.Now(), in seconds
  mainPc,                 \* position of main: "loop", "wait", "done"
  next,                   \* index of the section the loop of main is at
  wg,                     \* the WaitGroup counter
  task,                   \* per region, the state of its goroutine
  fs                      \* the files under data/: name -> rows on disk

vars == <<createMissingTagsFile, createNoOwnerFile, sections, inventory, clock,
          mainPc, next, wg, task, fs>>

SinkKinds == {"main", "missing", "noowner"}

\* The <kind> part of a report's file name.
FileKind(sink) ==
  CASE sink = "main" -> "resources"
    [] sink = "missing" -> "missing_tags"
    [] sink = "noowner" -> "no_owner"

\* FileName with the section left out of the name.
FileName_NoSection(section, sink, timestamp) ==
  [section |-> "", kind |-> FileKind(sink), timestamp |-> timestamp]

\* fmt.Sprintf("data/%s_<kind>_%s.csv", section, timestamp)
FileName(section, sink, timestamp) ==
  [section |-> section, kind |-> FileKind(sink), timestamp |-> timestamp]

\* A sink before os.Create: no file, no writer.
NoSink == [state |-> "none", buf |-> <<>>, flushes |-> 0, closes |-> 0]

\* A log line: the message and the number it prints (0 when it prints none).
LogLine(msg, n) == [msg |-> msg, n |-> n]

\* The goroutine of a region before `go func` starts it. requests, yielded
\* and mainWrote record what the scan did: the cursors of the requests sent,
\* the resources the loop over response.Items has taken, and the outcome of
\* the main Write for each of them.
IdleTask ==
  [ pc |-> "idle", exit |-> "none", timestamp |-> 0,
    sinks |-> [k \in SinkKinds |-> NoSink], defers |-> <<>>,
    page |-> 0, response |-> [Items |-> <<>>, OpcNextPage |-> 0], idx |-> 1,
    requests |-> <<>>, yielded |-> <<>>, mainWrote |-> <<>>,
    totalResources |-> 0, missingTagsCount |-> 0, noOwnerCount |-> 0,
    log |-> <<>> ]

Init ==
  /\ createMissingTagsFile \in BOOLEAN
  /\ createNoOwnerFile \in BOOLEAN
  /\ \E run \in Runs : sections = run.sections /\ inventory = run.inventory
  /\ clock = 0
  /\ mainPc = "loop"
  /\ next = 1
  /\ wg = 0
  /\ task = [r \in Regions |-> IdleTask]
  /\ fs = [n \in {} |-> <<>>]


\* ------------------------------------------------- steps of ExecuteFullSearch
\* log.Printf
Log(t, msg, n) == [t EXCEPT !.log = Append(@, LogLine(msg, n))]

\* A return statement is reached: the deferred calls run before the function
\* returns (Returning below).
Return(t, exit) == [t EXCEPT !.pc = "defers", !.exit = exit]

\* time.Now().UTC().Format("20060102_150405")
TakeTimestamp(t, now) == [t EXCEPT !.timestamp = now, !.pc = "construct"]

\* ConstructStep that logs a client error and goes on.
ConstructStep_IgnoreClientError(t, failure) ==
  CASE failure = "provider" -> Return(Log(t, "Error creating configuration provider", 0), "error")
    [] failure = "client" -> [Log(t, "Error creating client", 0) EXCEPT !.pc = "create"]
    [] failure = "mkdir" -> Return(Log(t, "Error creating data directory", 0), "error")
    [] OTHER -> [t EXCEPT !.pc = "create"]

\* Configuration provider, search client and data directory; failure names
\* the call that fails ("none": all succeed).
ConstructStep(t, failure) ==
  CASE failure = "provider" -> Return(Log(t, "Error creating configuration provider", 0), "error")
    [] failure = "client" -> Return(Log(t, "Error creating client", 0), "error")
    [] failure = "mkdir" -> Return(Log(t, "Error creating data directory", 0), "error")
    [] OTHER -> [t EXCEPT !.pc = "create"]

\* os.Create: the file exists and is empty.
Create(fsys, name) ==
  [n \in DOMAIN fsys \cup {name} |-> IF n = name THEN <<>> ELSE fsys[n]]

\* The deferred calls registered for a sink, in registration order.
SinkDefers(sink) == << [op |-> "Close", sink |-> sink], [op |-> "Flush", sink |-> sink] >>

\* os.Create succeeded for a sink: file, csv.NewWriter, defer Close, defer Flush.
OpenSink(st, section, sink) ==
  [ t |-> [st.t EXCEPT !.sinks[sink].state = "open", !.defers = @ \o SinkDefers(sink)],
    fs |-> Create(st.fs, FileName(section, sink, st.t.timestamp)) ]

\* An error branch: log and return.
Abort(st, msg) == [t |-> Return(Log(st.t, msg, 0), "error"), fs |-> st.fs]

\* CreateStep that logs a failed os.Create of the no-owner file and goes on.
CreateStep_IgnoreNoOwnerError(t, fsys, section, failure) ==
  LET s0 == [t |-> t, fs |-> fsys]
      s1 == OpenSink(s0, section, "main")
      s2 == IF createMissingTagsFile THEN OpenSink(s1, section, "missing") ELSE s1
      s3 == IF createNoOwnerFile THEN OpenSink(s2, section, "noowner") ELSE s2
  IN IF failure = "main" THEN Abort(s0, "Error creating main report file")
     ELSE IF createMissingTagsFile /\ failure = "missing" THEN Abort(s1, "Error creating missing tags file")
     ELSE IF createNoOwnerFile /\ failure = "noowner"
          THEN [t |-> [Log(s2.t, "Error creating no owner file", 0) EXCEPT !.pc = "headers"], fs |-> s2.fs]
     ELSE [t |-> [s3.t EXCEPT !.pc = "headers"], fs |-> s3.fs]

\* Creation of the report files; failure names the sink whose os.Create fails.
CreateStep(t, fsys, section, failure) ==
  LET s0 == [t |-> t, fs |-> fsys]
      s1 == OpenSink(s0, section, "main")
      s2 == IF createMissingTagsFile THEN OpenSink(s1, section, "missing") ELSE s1
      s3 == IF createNoOwnerFile THEN OpenSink(s2, section, "noowner") ELSE s2
  IN IF failure = "main" THEN Abort(s0, "Error creating main report file")
     ELSE IF createMissingTagsFile /\ failure = "missing" THEN Abort(s1, "Error creating missing tags file")
     ELSE IF createNoOwnerFile /\ failure = "noowner" THEN Abort(s2, "Error creating no owner file")
     ELSE [t |-> [s3.t EXCEPT !.pc = "headers"], fs |-> s3.fs]

\* csv.Writer.Write succeeded: the row is in the writer's buffer.
Write(t, sink, row) == [t EXCEPT !.sinks[sink].buf = Append(@, row)]

\* The header rows; failure names the sink whose Write(headers) fails.
HeaderStep(t, failure) ==
  LET h1 == Write(t, "main", headers)
      h2 == IF createMissingTagsFile THEN Write(h1, "missing", headers) ELSE h1
      h3 == IF createNoOwnerFile THEN Write(h2, "noowner", headers) ELSE h2
  IN IF failure = "main" THEN Return(Log(t, "Error writing main report header", 0), "error")
     ELSE IF createMissingTagsFile /\ failure = "missing" THEN Return(Log(h1, "Error writing missing tags header", 0), "error")
     ELSE IF createNoOwnerFile /\ failure = "noowner" THEN Return(Log(h2, "Error writing no owner header", 0), "error")
     ELSE [h3 EXCEPT !.pc = "request"]

\* SearchStep that ends the goroutine on an error without running the
\* deferred calls (log.Fatalf in place of log.Printf and return).
SearchStep_Fatal(t, feed, ok) ==
  LET sent == [t EXCEPT !.requests = Append(@, t.page)]
      k == IF t.page = 0 THEN 1 ELSE t.page
  IN IF ~ok THEN [Log(sent, "Error searching resources", 0) EXCEPT !.pc = "returned", !.exit = "error"]
     ELSE [sent EXCEPT !.response = [Items |-> feed[k], OpcNextPage |-> IF k < Len(feed) THEN k + 1 ELSE 0],
                       !.idx = 1, !.pc = "items"]

\* client.SearchResources(ctx, request): the page request.Page designates.
SearchStep(t, feed, ok) ==
  LET sent == [t EXCEPT !.requests = Append(@, t.page)]
      k == IF t.page = 0 THEN 1 ELSE t.page
  IN IF ~ok THEN Return(Log(sent, "Error searching resources", 0), "error")
     ELSE [sent EXCEPT !.response = [Items |-> feed[k], OpcNextPage |-> IF k < Len(feed) THEN k + 1 ELSE 0],
                       !.idx = 1, !.pc = "items"]

\* The no-owner test without the test for empty tags.
MissingOwner_TaggedOnly(dt) == LenTags(dt) # 0 /\ ~hasCreatedByTag(dt)

\* The no-owner test without the owner check.
MissingOwner_UntaggedOnly(dt) == LenTags(dt) = 0

\* A resource goes to the no-owner report.
MissingOwner(dt) == LenTags(dt) = 0 \/ ~hasCreatedByTag(dt)

\* ItemStep that sends an untagged resource to the missing-tags report only.
ItemStep_UntaggedOnlyToMissing(t, section, now, mainOk, mtOk, noOk) ==
  LET resource == t.response.Items[t.idx]
      row == Row(section, resource, now)
      untagged == createMissingTagsFile /\ LenTags(resource.DefinedTags) = 0
      t0 == [t EXCEPT !.idx = @ + 1, !.yielded = Append(@, resource),
                      !.mainWrote = Append(@, mainOk)]
      t1 == IF untagged THEN t0 ELSE Write(t0, "main", row)
      t2 == IF untagged
            THEN IF mtOk THEN [Write(t1, "missing", row) EXCEPT !.missingTagsCount = @ + 1]
                 ELSE Log(t1, "Error writing to missing tags report", 0)
            ELSE t1
      t3 == IF createNoOwnerFile /\ MissingOwner(resource.DefinedTags)
            THEN IF noOk THEN [Write(t2, "noowner", row) EXCEPT !.noOwnerCount = @ + 1]
                 ELSE Log(t2, "Error writing to no owner report", 0)
            ELSE t2
  IN IF ~mainOk THEN Log(t0, "Error writing to main report", 0)
     ELSE [t3 EXCEPT !.totalResources = @ + 1]

\* ItemStep without the continue after a failed main Write.
ItemStep_NoContinue(t, section, now, mainOk, mtOk, noOk) ==
  LET resource == t.response.Items[t.idx]
      row == Row(section, resource, now)
      t0 == [t EXCEPT !.idx = @ + 1, !.yielded = Append(@, resource),
                      !.mainWrote = Append(@, mainOk)]
      t1 == IF mainOk THEN Write(t0, "main", row) ELSE Log(t0, "Error writing to main report", 0)
      t2 == IF createMissingTagsFile /\ LenTags(resource.DefinedTags) = 0
            THEN IF mtOk THEN [Write(t1, "missing", row) EXCEPT !.missingTagsCount = @ + 1]
                 ELSE Log(t1, "Error writing to missing tags report", 0)
            ELSE t1
      t3 == IF createNoOwnerFile /\ MissingOwner(resource.DefinedTags)
            THEN IF noOk THEN [Write(t2, "noowner", row) EXCEPT !.noOwnerCount = @ + 1]
                 ELSE Log(t2, "Error writing to no owner report", 0)
            ELSE t2
  IN [t3 EXCEPT !.totalResources = @ + 1]

\* ItemStep that counts a row for an exception report before writing it.
ItemStep_CountsBeforeWrite(t, section, now, mainOk, mtOk, noOk) ==
  LET resource == t.response.Items[t.idx]
      row == Row(section, resource, now)
      t0 == [t EXCEPT !.idx = @ + 1, !.yielded = Append(@, resource),
                      !.mainWrote = Append(@, mainOk)]
      t1 == Write(t0, "main", row)
      c2 == [t1 EXCEPT !.missingTagsCount = @ + 1]
      t2 == IF createMissingTagsFile /\ LenTags(resource.DefinedTags) = 0
            THEN IF mtOk THEN Write(c2, "missing", row)
                 ELSE Log(c2, "Error writing to missing tags report", 0)
            ELSE t1
      c3 == [t2 EXCEPT !.noOwnerCount = @ + 1]
      t3 == IF createNoOwnerFile /\ MissingOwner(resource.DefinedTags)
            THEN IF noOk THEN Write(c3, "noowner", row)
                 ELSE Log(c3, "Error writing to no owner report", 0)
            ELSE t2
  IN IF ~mainOk THEN Log(t0, "Error writing to main report", 0)
     ELSE [t3 EXCEPT !.totalResources = @ + 1]

\* The body of the loop over response.Items for one resource; mainOk, mtOk
\* and noOk are the outcomes of the three Write calls.
ItemStep(t, section, now, mainOk, mtOk, noOk) ==
  LET resource == t.response.Items[t.idx]
      row == Row(section, resource, now)
      t0 == [t EXCEPT !.idx = @ + 1, !.yielded = Append(@, resource),
                      !.mainWrote = Append(@, mainOk)]
      t1 == Write(t0, "main", row)
      t2 == IF createMissingTagsFile /\ LenTags(resource.DefinedTags) = 0
            THEN IF mtOk THEN [Write(t1, "missing", row) EXCEPT !.missingTagsCount = @ + 1]
                 ELSE Log(t1, "Error writing to missing tags report", 0)
            ELSE t1
      t3 == IF createNoOwnerFile /\ MissingOwner(resource.DefinedTags)
            THEN IF noOk THEN [Write(t2, "noowner", row) EXCEPT !.noOwnerCount = @ + 1]
                 ELSE Log(t2, "Error writing to no owner report", 0)
            ELSE t2
  IN IF ~mainOk THEN Log(t0, "Error writing to main report", 0)
     ELSE [t3 EXCEPT !.totalResources = @ + 1]

\* CursorStep without the time.Sleep between two pages.
CursorStep_NoSleep(t) ==
  IF t.response.OpcNextPage = 0 THEN [t EXCEPT !.pc = "summary"]
  ELSE [t EXCEPT !.page = t.response.OpcNextPage, !.pc = "request"]

\* After the last item of a page: break, or take the cursor and sleep.
CursorStep(t) ==
  IF t.response.OpcNextPage = 0 THEN [t EXCEPT !.pc = "summary"]
  ELSE [t EXCEPT !.page = t.response.OpcNextPage, !.pc = "sleep"]

\* SummaryStep that logs the total only.
SummaryStep_TotalOnly(t, section) ==
  Return(Log(t, "Processed resources", t.totalResources), "normal")

\* The final log lines, then the end of the function.
SummaryStep(t, section) ==
  LET l1 == Log(t, "Processed resources", t.totalResources)
      l2 == IF createMissingTagsFile THEN Log(l1, "Found resources with missing tags", t.missingTagsCount) ELSE l1
      l3 == IF createNoOwnerFile THEN Log(l2, "Found resources with no owner", t.noOwnerCount) ELSE l2
  IN Return(l3, "normal")

\* One deferred call: csv.Writer.Flush writes the buffer to the file if the
\* file is still open; os.File.Close closes it.
Deferred(st, section, d) ==
  LET sink == st.t.sinks[d.sink]
      name == FileName(section, d.sink, st.t.timestamp)
  IN IF d.op = "Flush"
     THEN IF sink.state = "open"
          THEN [ t |-> [st.t EXCEPT !.sinks[d.sink].buf = <<>>, !.sinks[d.sink].flushes = @ + 1],
                 fs |-> [st.fs EXCEPT ![name] = @ \o sink.buf] ]
          ELSE [ t |-> [st.t EXCEPT !.sinks[d.sink].flushes = @ + 1], fs |-> st.fs ]
     ELSE [ t |-> [st.t EXCEPT !.sinks[d.sink].state = "closed", !.sinks[d.sink].closes = @ + 1],
            fs |-> st.fs ]

\* Deferred calls run in registration order.
DeferOrder_Fifo(defers) == defers

\* The order in which the deferred calls run: last registered first.
DeferOrder(defers) == [i \in 1..Len(defers) |-> defers[Len(defers) + 1 - i]]

RECURSIVE RunCalls(_, _, _)
\* Runs a sequence of deferred calls, first to last.
RunCalls(st, section, calls) ==
  IF Len(calls) = 0 THEN st
  ELSE RunCalls(Deferred(st, section, Head(calls)), section, Tail(calls))

\* The deferred calls of ExecuteFullSearch at its return.
DefersStep(t, fsys, section) ==
  LET st == RunCalls([t |-> t, fs |-> fsys], section, DeferOrder(t.defers))
  IN [t |-> [st.t EXCEPT !.defers = <<>>, !.pc = "returned"], fs |-> st.fs]

\* The end of a step of ExecuteFullSearch: if the step reached a return
\* statement, the deferred calls run and the function returns.
Returning(t, fsys, section) ==
  IF t.pc = "defers" THEN DefersStep(t, fsys, section) ELSE [t |-> t, fs |-> fsys]

\* ------------------------------------------------------------- the actions
\* main: a DEFAULT section is skipped.
SkipDefault ==
  /\ mainPc = "loop" /\ next <= Len(sections) /\ sections[next] = "DEFAULT"
  /\ next' = next + 1
  /\ UNCHANGED <<createMissingTagsFile, createNoOwnerFile, sections, inventory, clock, mainPc, wg, task, fs>>

\* main: wg.Add(1); go func(sectionName)
Go ==
  /\ mainPc = "loop" /\ next <= Len(sections) /\ sections[next] # "DEFAULT"
  /\ wg' = wg + 1
  /\ task' = [task EXCEPT ![sections[next]].pc = "start"]
  /\ next' = next + 1
  /\ UNCHANGED <<createMissingTagsFile, createNoOwnerFile, sections, inventory, clock, mainPc, fs>>

\* main: the loop over the sections is over; wg.Wait() is called.
Wait ==
  /\ mainPc = "loop" /\ next > Len(sections)
  /\ mainPc' = "wait"
  /\ UNCHANGED <<createMissingTagsFile, createNoOwnerFile, sections, inventory, clock, next, wg, task, fs>>

\* main: wg.Wait() returns; "All regions processed successfully".
Join ==
  /\ mainPc = "wait" /\ wg = 0
  /\ mainPc' = "done"
  /\ UNCHANGED <<createMissingTagsFile, createNoOwnerFile, sections, inventory, clock, next, wg, task, fs>>

\* The goroutine of region r has yet to take its timestamp.
BeforeTimestamp(r) ==
  \/ task[r].pc = "start"
  \/ mainPc = "loop" /\ \E i \in next..Len(sections) : sections[i] = r

\* The clock advances. Time is counted from the first timestamp taken (the
\* claims compare timestamps, never read their absolute value), and once
\* every goroutine has taken its timestamp the clock is read only for
\* resources that carry a creation time: these come in one-region runs, with
\* creation instants that cover the elapsed times of interest. The ticks of
\* the model are those between the first timestamp and the last.
Tick ==
  /\ clock < MaxClock
  /\ \E r \in Regions : ~BeforeTimestamp(r) /\ task[r].pc # "idle"
  /\ \E r \in Regions : BeforeTimestamp(r)
  /\ clock' = clock + 1
  /\ UNCHANGED <<createMissingTagsFile, createNoOwnerFile, sections, inventory, mainPc, next, wg, task, fs>>

\* What a step of one goroutine leaves alone.
TaskFrame == UNCHANGED <<createMissingTagsFile, createNoOwnerFile, sections, inventory, clock, mainPc, next, wg>>

Begin(r) ==
  /\ task[r].pc = "start"
  /\ task' = [task EXCEPT ![r] = TakeTimestamp(task[r], clock)]
  /\ UNCHANGED fs /\ TaskFrame

Construct(r) ==
  /\ task[r].pc = "construct"
  /\ \E failure \in {"none", "provider", "client", "mkdir"} :
       LET st == Returning(ConstructStep(task[r], failure), fs, r)
       IN task' = [task EXCEPT ![r] = st.t] /\ fs' = st.fs
  /\ TaskFrame

\* The sinks the flags make active.
ActiveSinks ==
  {"main"} \cup (IF createMissingTagsFile THEN {"missing"} ELSE {})
           \cup (IF createNoOwnerFile THEN {"noowner"} ELSE {})

CreateSinks(r) ==
  /\ task[r].pc = "create"
  /\ \E failure \in {"none"} \cup ActiveSinks :
       LET created == CreateStep(task[r], fs, r, failure)
           st == Returning(created.t, created.fs, r)
       IN task' = [task EXCEPT ![r] = st.t] /\ fs' = st.fs
  /\ TaskFrame

WriteHeaders(r) ==
  /\ task[r].pc = "headers"
  /\ \E failure \in {"none"} \cup ActiveSinks :
       LET st == Returning(HeaderStep(task[r], failure), fs, r)
       IN task' = [task EXCEPT ![r] = st.t] /\ fs' = st.fs
  /\ TaskFrame

SearchResources(r) ==
  /\ task[r].pc = "request"
  /\ \E ok \in BOOLEAN :
       LET st == Returning(SearchStep(task[r], inventory[r], ok), fs, r)
       IN task' = [task EXCEPT ![r] = st.t] /\ fs' = st.fs
  /\ TaskFrame

ProcessItem(r) ==
  /\ task[r].pc = "items" /\ task[r].idx <= Len(task[r].response.Items)
  /\ \E mainOk \in BOOLEAN, mtOk \in BOOLEAN, noOk \in BOOLEAN :
       task' = [task EXCEPT ![r] = ItemStep(task[r], r, clock, mainOk, mtOk, noOk)]
  /\ UNCHANGED fs /\ TaskFrame

NextPage(r) ==
  /\ task[r].pc = "items" /\ task[r].idx > Len(task[r].response.Items)
  /\ task' = [task EXCEPT ![r] = CursorStep(task[r])]
  /\ UNCHANGED fs /\ TaskFrame

\* time.Sleep(200 * time.Millisecond)
Sleep(r) ==
  /\ task[r].pc = "sleep"
  /\ task' = [task EXCEPT ![r].pc = "request"]
  /\ UNCHANGED fs /\ TaskFrame

Summary(r) ==
  /\ task[r].pc = "summary"
  /\ LET st == Returning(SummaryStep(task[r], r), fs, r)
     IN task' = [task EXCEPT ![r] = st.t] /\ fs' = st.fs
  /\ TaskFrame

\* The end of a goroutine that does not call wg.Done().
Done_NoWgDone(r) ==
  /\ task[r].pc = "returned"
  /\ task' = [task EXCEPT ![r].pc = "done"]
  /\ UNCHANGED <<createMissingTagsFile, createNoOwnerFile, sections, inventory, clock, mainPc, next, wg, fs>>

\* The goroutine ends: defer wg.Done()
Done(r) ==
  /\ task[r].pc = "returned"
  /\ task' = [task EXCEPT ![r].pc = "done"]
  /\ wg' = wg - 1
  /\ UNCHANGED <<createMissingTagsFile, createNoOwnerFile, sections, inventory, clock, mainPc, next, fs>>

Next ==
  \/ SkipDefault
  \/ Go
  \/ Wait
  \/ Join
  \/ Tick
  \/ \E r \in Regions : Begin(r)
  \/ \E r \in Regions : Construct(r)
  \/ \E r \in Regions : CreateSinks(r)
  \/ \E r \in Regions : WriteHeaders(r)
  \/ \E r \in Regions : SearchResources(r)
  \/ \E r \in Regions : ProcessItem(r)
  \/ \E r \in Regions : NextPage(r)
  \/ \E r \in Regions : Sleep(r)
  \/ \E r \in Regions : Summary(r)
  \/ \E r \in Regions : Done(r)

Spec == Init /\ [][Next]_vars

\* The steps of main, and the steps of the goroutine of region r that do not
\* wait for the search API.
MainStep == SkipDefault \/ Go \/ Wait \/ Join
LocalStep(r) ==
  \/ Begin(r) \/ Construct(r) \/ CreateSinks(r) \/ WriteHeaders(r) \/ ProcessItem(r)
  \/ NextPage(r) \/ Sleep(r) \/ Summary(r) \/ Done(r)

\* When a step of main, and a local step of the goroutine of region r, can
\* be taken: the guards of MainStep and of LocalStep(r).
MainEnabled == mainPc = "loop" \/ (mainPc = "wait" /\ wg = 0)
LocalEnabled(r) ==
  task[r].pc \in {"start", "construct", "create", "headers", "items", "sleep", "summary", "returned"}

\* The Go scheduler runs every goroutine that can run; when, and whether,
\* client.SearchResources returns is up to the remote service. The two
\* conditions are WF_vars(MainStep) and WF_vars(LocalStep(r)) with the
\* ENABLED predicates written out as the guards above.
\* The runs checked for termination: the run of two regions, and the runs of
\* one region over every feed of untagged resources, which go to every sink.
LiveInit ==
  /\ Init
  /\ \/ Len(sections) = 3
     \/ \A i \in 1..Len(inventory["r1"]) : \A j \in 1..Len(inventory["r1"][i]) :
          inventory["r1"][i][j] = ResUntagged

FairSpec ==
  /\ LiveInit /\ [][Next]_vars
  /\ ([]<>(~MainEnabled) \/ []<><<MainStep>>_vars)
  /\ \A r \in Regions : ([]<>(~LocalEnabled(r)) \/ []<><<LocalStep(r)>>_vars)


\* ---------------------------------------------------- vocabulary of the claims
\* The state of a region task: Pending until its client is constructed,
\* Running until ExecuteFullSearch returns, then Completed or Failed.
Status(r) ==
  CASE task[r].pc \in {"idle", "start", "construct"} -> "Pending"
    [] task[r].pc \in {"returned", "done"} ->
         IF task[r].exit = "normal" THEN "Completed" ELSE "Failed"
    [] OTHER -> "Running"

Ended(r) == Status(r) \in {"Completed", "Failed"}

\* The log of a task has a line with this message.
HasLog(t, msg) == \E i \in 1..Len(t.log) : t.log[i].msg = msg

RowWriteErrors ==
  {"Error writing to main report", "Error writing to missing tags report",
   "Error writing to no owner report"}

NoRowWriteError(t) == \A m \in RowWriteErrors : ~HasLog(t, m)

\* The scan of the task ended with a request error.
ScanError(r) == Ended(r) /\ HasLog(task[r], "Error searching resources")

RECURSIVE Flatten(_)
\* The records of a sequence of pages, in order.
Flatten(pages) == IF Len(pages) = 0 THEN <<>> ELSE Head(pages) \o Flatten(Tail(pages))

\* The rows of a sequence of records.
RowsOf(section, recs) == [i \in 1..Len(recs) |-> Row(section, recs[i], clock)]

\* The name of a report of region r, and what is on disk under it.
ReportName(r, sink) == FileName(r, sink, task[r].timestamp)
OnDisk(r, sink) == fs[ReportName(r, sink)]

\* Number of pages wholly processed when the request for t.page is the last sent.
PagesDone(t) == IF t.page = 0 THEN 0 ELSE t.page - 1

\* ------------------------------------------------------------------ C1
\* C1: at every page boundary and at the end of a scan, totalResources equals
\* the number of records the scan has yielded, whatever the write outcomes.
C1_TotalCountsEveryRecord ==
  \A r \in Regions :
    (\/ task[r].pc = "items" /\ task[r].idx > Len(task[r].response.Items)
     \/ task[r].pc \in {"sleep", "summary"}
     \/ ScanError(r)
     \/ Status(r) = "Completed")
    => task[r].totalResources = Len(task[r].yielded)

\* ------------------------------------------------------------------ C2
\* The number of log lines with a message.
CountLog(t, msg) == Len(SelectSeq(t.log, LAMBDA l : l.msg = msg))

\* A step of the loop body attempted the Write to a sink: the row went to its
\* buffer, or that sink's own write error was logged.
Attempted(r, sink, msg, row) ==
  \/ task'[r].sinks[sink].buf = Append(task[r].sinks[sink].buf, row)
  \/ CountLog(task'[r], msg) = CountLog(task[r], msg) + 1

\* C2: whatever the outcome of the main Write, each record with empty defined
\* tags is written to the missing-tags sink when active (or that sink's own
\* error is logged), each record without owner to the no-owner sink when
\* active, and the scan moves to the next record.
C2_RowErrorSkipsOneSinkOnly ==
  [][\A r \in Regions :
       (task[r].pc = "items" /\ task'[r] # task[r]
        /\ task[r].idx <= Len(task[r].response.Items)) =>
         LET resource == task[r].response.Items[task[r].idx]
             row == Row(r, resource, clock)
         IN /\ task'[r].idx = task[r].idx + 1
            /\ (createMissingTagsFile /\ LenTags(resource.DefinedTags) = 0)
                 => Attempted(r, "missing", "Error writing to missing tags report", row)
            /\ (createNoOwnerFile /\ MissingOwner(resource.DefinedTags))
                 => Attempted(r, "noowner", "Error writing to no owner report", row)]_vars

\* ------------------------------------------------------------------ C3
\* C3: a scan whose request for page k+1 fails, with no row-write failure,
\* ends Failed with the header and exactly the rows of pages 1..k, in order,
\* on disk in the main report, after exactly k+1 requests.
C3_ScanErrorKeepsPages ==
  \A r \in Regions :
    (ScanError(r) /\ NoRowWriteError(task[r])) =>
      LET k == PagesDone(task[r])
      IN /\ Status(r) = "Failed"
         /\ task[r].yielded = Flatten(SubSeq(inventory[r], 1, k))
         /\ OnDisk(r, "main") = <<headers>> \o RowsOf(r, task[r].yielded)
         /\ Len(task[r].requests) = k + 1

\* A scan failed on a later page after writing at least one row.
C3_Witness ==
  \E r \in Regions :
    /\ ScanError(r) /\ NoRowWriteError(task[r])
    /\ PagesDone(task[r]) >= 1 /\ Len(task[r].yielded) >= 1

\* ------------------------------------------------------------------ C4
\* C4: a closed sink has an empty buffer (it was flushed before it was
\* closed), and once the task has ended no sink is open, every sink that was
\* opened has been flushed once and closed once, and its file is on disk.
C4_SinksFlushedThenClosedOnce ==
  \A r \in Regions : \A k \in SinkKinds :
    LET sink == task[r].sinks[k]
    IN /\ sink.state = "closed" => sink.buf = <<>>
       /\ Ended(r) =>
            /\ sink.state # "open"
            /\ sink.state = "closed" =>
                 sink.flushes = 1 /\ sink.closes = 1 /\ ReportName(r, k) \in DOMAIN fs
            /\ sink.state = "none" => sink.flushes = 0 /\ sink.closes = 0

\* A task ended on an error with rows flushed to its main report.
C4_Witness ==
  \E r \in Regions :
    /\ Status(r) = "Failed"
    /\ task[r].sinks["main"].state = "closed"
    /\ Len(OnDisk(r, "main")) >= 2

\* ------------------------------------------------------------------ C5
\* The log lines that report the final counters.
CountersLogged(t) ==
  /\ \E i \in 1..Len(t.log) : t.log[i] = LogLine("Processed resources", t.totalResources)
  /\ createMissingTagsFile =>
       \E i \in 1..Len(t.log) : t.log[i] = LogLine("Found resources with missing tags", t.missingTagsCount)
  /\ createNoOwnerFile =>
       \E i \in 1..Len(t.log) : t.log[i] = LogLine("Found resources with no owner", t.noOwnerCount)

\* C5 as claimed: the final counters are logged when the scan ends normally
\* and when it ends with a request error.
C5_CountersLoggedOnEveryEnd ==
  \A r \in Regions :
    (Status(r) = "Completed" \/ ScanError(r)) => CountersLogged(task[r])

CounterMessages ==
  {"Processed resources", "Found resources with missing tags", "Found resources with no owner"}

\* C5 as amended: a scan that ends normally logs the final counters before
\* the task ends; a scan that ends with a request error logs that error as
\* its last line and logs no counter.
C5_CountersLoggedOnNormalEnd ==
  \A r \in Regions :
    /\ Status(r) = "Completed" => CountersLogged(task[r])
    /\ ScanError(r) =>
         /\ task[r].log[Len(task[r].log)].msg = "Error searching resources"
         /\ \A m \in CounterMessages : ~HasLog(task[r], m)

\* A scan ended with a request error after it had counted a resource in the
\* missing-tags report.
C5_Witness ==
  \E r \in Regions :
    ScanError(r) /\ createMissingTagsFile /\ task[r].missingTagsCount >= 1


\* ------------------------------------------------------------------ C6
\* A report starts with the header row and holds it once.
HeaderFirstAndOnce(rows) ==
  /\ Len(rows) >= 1
  /\ rows[1] = headers
  /\ \A i \in 2..Len(rows) : rows[i] # headers

\* C6: once a task has ended, every file it produced has the header as its
\* first row, exactly once.
C6_EveryFileStartsWithHeader ==
  \A r \in Regions :
    Ended(r) => \A n \in DOMAIN fs : n.section = r => HeaderFirstAndOnce(fs[n])

\* ------------------------------------------------------------------ C7
\* The main Write failed for no header and no row of the task.
MainSinkSound(t) ==
  /\ ~HasLog(t, "Error creating main report file")
  /\ ~HasLog(t, "Error writing main report header")
  /\ ~HasLog(t, "Error writing to main report")

\* C7 as claimed, for a main sink and a search API that never fail: the main
\* report of an ended task whose client was constructed is the header and the
\* rows of the whole feed, an expression in which the flags do not occur, so
\* it is the same for every value of the flags, also in the runs where an
\* exception sink cannot be created or cannot take its header.
C7_MainReportSameForAllFlags ==
  \A r \in Regions :
    ( /\ Ended(r) /\ task[r].sinks["main"].state # "none"
      /\ MainSinkSound(task[r])
      /\ ~HasLog(task[r], "Error searching resources") )
    => OnDisk(r, "main") = <<headers>> \o RowsOf(r, Flatten(inventory[r]))

\* The records among recs whose main Write succeeded.
Written(recs, wrote) ==
  LET idx == SelectSeq([i \in 1..Len(recs) |-> i], LAMBDA i : wrote[i])
  IN [j \in 1..Len(idx) |-> recs[idx[j]]]

\* The main report as a function of the region, the feed, the outcomes of the
\* main Write and the number of pages the search API served before it failed
\* or ran out: no flag occurs in it.
MainReport(section, feed, wrote, served) ==
  <<headers>> \o RowsOf(section, Written(Flatten(SubSeq(feed, 1, served)), wrote))

\* The scan of a task started: every sink was created and took its header.
Scanned(t) == Len(t.requests) >= 1

\* C7 as amended: in the runs where every active exception sink is created
\* and takes its header, the main report of an ended task is determined by
\* the feed, the outcomes of the main Write and the page at which the search
\* API failed, whatever the values of the two flags and whatever the outcomes
\* of the writes to the exception sinks.
C7_MainReportSameWhenSinksOpen ==
  \A r \in Regions :
    (Ended(r) /\ Scanned(task[r])) =>
      LET served == IF ScanError(r) THEN PagesDone(task[r]) ELSE Len(inventory[r])
      IN /\ Len(task[r].mainWrote) = Len(Flatten(SubSeq(inventory[r], 1, served)))
         /\ OnDisk(r, "main") = MainReport(r, inventory[r], task[r].mainWrote, served)

\* A scan ended with both exception reports active, an untagged resource in
\* the main report and a failed write to an exception sink.
C7_Witness ==
  \E r \in Regions :
    /\ Ended(r) /\ Scanned(task[r])
    /\ createMissingTagsFile /\ createNoOwnerFile
    /\ HasLog(task[r], "Error writing to missing tags report")
    /\ \E i \in 1..Len(task[r].yielded) :
         task[r].yielded[i] = ResUntagged /\ task[r].mainWrote[i]

\* ------------------------------------------------------------------ C8
\* C8: all the files of a run carry the same timestamp token.
C8_OneTimestampPerRun ==
  \A n1 \in DOMAIN fs : \A n2 \in DOMAIN fs : n1.timestamp = n2.timestamp

\* ------------------------------------------------------------------ C9
\* The profiles of the config file that are scanned, and those main has
\* passed in its loop.
Profiles == {sections[i] : i \in 1..Len(sections)} \ {"DEFAULT"}
Passed == {sections[i] : i \in 1..(next - 1)} \ {"DEFAULT"}

\* The files of a region: those its sinks name.
FilesOf(r, fsys) ==
  [n \in {ReportName(r, k) : k \in SinkKinds} \cap DOMAIN fsys |-> fsys[n]]

\* C9, the tasks and the join: the started tasks are those of the
\* non-DEFAULT profiles main has passed, the WaitGroup counts the tasks that
\* have not ended, and main is past the join only when every profile's task
\* has ended.
C9_JoinAfterAllTasks ==
  /\ \A r \in Regions : task[r].pc # "idle" <=> r \in Passed
  /\ wg = Cardinality({r \in Passed : task[r].pc # "done"})
  /\ mainPc = "done" => \A r \in Profiles : task[r].pc = "done" /\ Ended(r)

\* C9, isolation: a step that changes the task of one region changes neither
\* the task nor the files of another region.
C9_StepTouchesOneRegion ==
  \A r \in Regions : \A q \in Regions \ {r} :
    task'[r] # task[r] =>
      task'[q] = task[q] /\ FilesOf(q, fs') = FilesOf(q, fs)

\* C9: one task per non-DEFAULT profile, the join after all of them, and no
\* effect of one region's task on another's sinks and counters.
C9_TasksIndependentUntilJoin ==
  [](C9_JoinAfterAllTasks) /\ [][C9_StepTouchesOneRegion]_vars

\* One region's task failed while the other's, started at the same second,
\* was still scanning with its files open, and later main passed the join.
C9_Witness ==
  \E r \in Regions : \E q \in Regions \ {r} :
    /\ Status(r) = "Failed" /\ task[r].sinks["main"].state = "closed"
    /\ task[q].pc = "items" /\ task[q].timestamp = task[r].timestamp

\* ------------------------------------------------------------------ C10
ConstructionErrors ==
  {"Error creating configuration provider", "Error creating client"}

ConstructionFailed(t) == \E m \in ConstructionErrors : HasLog(t, m)

\* C10, the state: a task whose provider or client could not be constructed
\* has Failed, has created no file and opened no sink, and has sent no request.
C10_NoSinkNoRequest ==
  \A r \in Regions :
    ConstructionFailed(task[r]) =>
      /\ Status(r) = "Failed"
      /\ \A n \in DOMAIN fs : n.section # r
      /\ \A k \in SinkKinds : task[r].sinks[k] = NoSink
      /\ task[r].requests = <<>>

\* C10, the step: the step that fails the construction takes the task from
\* Pending to Failed and leaves the other tasks and the files alone.
C10_PendingToFailed ==
  \A r \in Regions :
    (~ConstructionFailed(task[r]) /\ ConstructionFailed(task'[r])) =>
      /\ Status(r) = "Pending"
      /\ Status(r)' = "Failed"
      /\ fs' = fs
      /\ \A q \in Regions \ {r} : task'[q] = task[q]

\* C10: a construction failure takes the task from Pending directly to
\* Failed with no file, no request and no effect on the sibling tasks.
C10_ConstructionFailureIsolated ==
  [](C10_NoSinkNoRequest) /\ [][C10_PendingToFailed]_vars

\* The client of one region could not be constructed while the task of the
\* other region had its reports on disk.
C10_Witness ==
  \E r \in Regions : \E q \in Regions \ {r} :
    /\ HasLog(task[r], "Error creating client")
    /\ Status(q) = "Completed" /\ Len(OnDisk(q, "main")) >= 2


\* ------------------------------------------------------------------ C11
\* The rows a step appended to the buffer of a sink.
Appended(r, sink) ==
  SubSeq(task'[r].sinks[sink].buf, Len(task[r].sinks[sink].buf) + 1, Len(task'[r].sinks[sink].buf))

\* The defined tags are empty; some namespace binds a key that spells
\* CreatedBy in some case to a non-empty string.
IsEmptyTags(dt) == dt = NilMap \/ DOMAIN dt = {}
CreatedBySpellings == {"CreatedBy", "CREATEDBY", "createdby"}
OwnerEvidence(dt) ==
  \E ns \in DOMAIN dt : \E key \in DOMAIN dt[ns] \cap CreatedBySpellings :
    dt[ns][key].type = "string" /\ dt[ns][key].val # ""
NoOwner(dt) == IsEmptyTags(dt) \/ ~OwnerEvidence(dt)

\* C11: a step of the loop body in which no Write fails appends the row of
\* the record to the main sink, appends the same row to the missing-tags sink
\* exactly when that sink is active and the defined tags are empty, and to
\* the no-owner sink exactly when that sink is active and the owner is missing.
C11_ExceptionRowsFollowLabels ==
  [][\A r \in Regions :
       (task[r].pc = "items" /\ task'[r].idx = task[r].idx + 1 /\ task'[r].log = task[r].log) =>
         LET resource == task[r].response.Items[task[r].idx]
             row == Appended(r, "main")
         IN /\ Len(row) = 1 /\ row[1] = Row(r, resource, clock)
            /\ Appended(r, "missing") =
                 (IF createMissingTagsFile /\ IsEmptyTags(resource.DefinedTags) THEN row ELSE <<>>)
            /\ Appended(r, "noowner") =
                 (IF createNoOwnerFile /\ NoOwner(resource.DefinedTags) THEN row ELSE <<>>)]_vars

\* A record with tags but no owner went to the main and no-owner sinks and
\* not to the missing-tags sink, both exception sinks being active.
C11_Witness ==
  \E r \in Regions :
    /\ createMissingTagsFile /\ createNoOwnerFile /\ NoRowWriteError(task[r])
    /\ task[r].pc = "items" /\ task[r].yielded = <<ResNoOwner>>
    /\ Len(task[r].sinks["noowner"].buf) = 2 /\ Len(task[r].sinks["missing"].buf) = 1

\* ------------------------------------------------------------------ C12
\* C12: for every defined-tags map the scan has classified, the missing-tags
\* test holds exactly when the map is empty, and for a non-empty map the
\* missing-owner test holds exactly when no namespace binds a spelling of
\* CreatedBy to a non-empty string; with both exception sinks active and no
\* failed write, the counters count the records so labelled.
C12_LabelsOfTagMaps ==
  \A r \in Regions :
    LET recs == task[r].yielded
        untagged == SelectSeq(recs, LAMBDA x : IsEmptyTags(x.DefinedTags))
        ownerless == SelectSeq(recs, LAMBDA x : NoOwner(x.DefinedTags))
    IN /\ \A i \in 1..Len(recs) :
            /\ (LenTags(recs[i].DefinedTags) = 0) <=> IsEmptyTags(recs[i].DefinedTags)
            /\ ~IsEmptyTags(recs[i].DefinedTags) =>
                 (MissingOwner(recs[i].DefinedTags) <=> ~OwnerEvidence(recs[i].DefinedTags))
       /\ (createMissingTagsFile /\ createNoOwnerFile /\ NoRowWriteError(task[r])) =>
            /\ task[r].missingTagsCount = Len(untagged)
            /\ task[r].noOwnerCount = Len(ownerless)

\* A record whose only CreatedBy value is a number, in a namespace other than
\* Oracle-Tags, was counted as having no owner.
C12_Witness ==
  \E r \in Regions :
    /\ task[r].yielded = <<Tagged([ns \in {"Ops"} |-> [k \in {"CREATEDBY"} |-> Num("42")]])>>
    /\ task[r].noOwnerCount = 1 /\ task[r].missingTagsCount = 0
    /\ createMissingTagsFile


\* ------------------------------------------------------------------ C13
\* Quotients of x by a positive d: rounded toward negative infinity, and
\* rounded toward zero.
FloorDiv(x, d) == x \div d
TowardZero(x, d) == IF x >= 0 THEN x \div d ELSE -((-x) \div d)

\* The rows a sink of region r has accepted so far: what reached its file
\* followed by what its writer still buffers; and its data rows, the header
\* left out.
Accepted(r, sink) ==
  (IF ReportName(r, sink) \in DOMAIN fs THEN OnDisk(r, sink) ELSE <<>>) \o task[r].sinks[sink].buf
DataRows(r, sink) == IF Len(Accepted(r, sink)) = 0 THEN <<>> ELSE Tail(Accepted(r, sink))

\* The creation time of a record, in seconds, and the main-sink rows written
\* for the records the scan has taken so far (one per record while no main
\* write failed).
CreatedOf(resource) == Deref(resource.TimeCreated)
MainRows(r) == DataRows(r, "main")
DaysChecked(r, days(_, _)) ==
  NoRowWriteError(task[r]) =>
    \A i \in 1..Len(task[r].yielded) :
      LET resource == task[r].yielded[i]
          row == MainRows(r)[i]
      IN IF resource.TimeCreated = Nil
         THEN row[7] = "N/A" /\ row[8] = "N/A"
         ELSE row[8] = ToString(days(clock - CreatedOf(resource), SecondsPerDay))

\* C13 as stated: the day count of every row is the elapsed time in days
\* rounded toward negative infinity, for past and future creation times, and
\* both time fields are "N/A" for a record with no creation time.
C13_DaysRoundedDown == \A r \in Regions : DaysChecked(r, FloorDiv)

\* C13 amended: the day count of every row is the elapsed time in days
\* rounded toward zero (a creation time less than a day ahead gives "0", a
\* day or more ahead gives a negative count, nothing is clamped), and both
\* time fields are "N/A" for a record with no creation time.
C13_DaysRoundedTowardZero == \A r \in Regions : DaysChecked(r, TowardZero)

\* A record created more than a day ahead of the clock has a row whose day
\* count is "-1"; rounding down would give "-2".
C13_Witness ==
  \E r \in Regions :
    /\ task[r].yielded = <<CreatedAt(SecondsPerDay + 3600)>>
    /\ clock = 0 /\ NoRowWriteError(task[r]) /\ Len(MainRows(r)) = 1
    /\ MainRows(r)[1][8] = "-1"


\* ------------------------------------------------------------------ C14
\* The records of the pages the search API has served to region r, as far as
\* the loop over the last of them has come.
Taken(r) ==
  LET n == Len(task[r].requests)
  IN CASE task[r].pc = "items" ->
            Flatten(SubSeq(inventory[r], 1, n - 1)) \o
              SubSeq(inventory[r][n], 1, task[r].idx - 1)
       [] task[r].pc \in {"sleep", "request", "summary"} \/ Status(r) = "Completed" ->
            Flatten(SubSeq(inventory[r], 1, n))
       [] OTHER -> IF n = 0 THEN <<>> ELSE Flatten(SubSeq(inventory[r], 1, n - 1))

\* A step of region r sends a request; a step of region r starts the delay.
Sends(r) == Len(task'[r].requests) = Len(task[r].requests) + 1
Cursor(r) == task'[r].requests[Len(task'[r].requests)]

\* C14: the first request carries no cursor and every later one the cursor of
\* the response before it, which is not empty; a request is sent only by the
\* step after the headers or by the step after the delay, and the delay
\* starts only when every record of the page has been processed; the records
\* are processed in the order served; a completed scan of k pages has sent k
\* requests.
C14_CursorProtocol ==
  /\ [](\A r \in Regions :
          /\ task[r].yielded = Taken(r)
          /\ Status(r) = "Completed" =>
               /\ Len(task[r].requests) = Len(inventory[r])
               /\ task[r].yielded = Flatten(inventory[r]))
  /\ [][\A r \in Regions :
          /\ Sends(r) =>
               /\ task[r].pc = "request"
               /\ Cursor(r) = (IF task[r].requests = <<>> THEN 0 ELSE task[r].response.OpcNextPage)
               /\ task[r].requests # <<>> => Cursor(r) # 0
               /\ task[r].idx > Len(task[r].response.Items)
          /\ (task'[r].pc = "request" /\ task[r].pc # "request") =>
               \/ task[r].pc = "headers" /\ task[r].requests = <<>>
               \/ task[r].pc = "sleep"
          /\ (task'[r].pc = "sleep" /\ task[r].pc # "sleep") =>
               /\ task[r].pc = "items"
               /\ task[r].idx > Len(task[r].response.Items)
               /\ task[r].response.OpcNextPage # 0]_vars

\* A scan of two pages completed with two requests, the second carrying the
\* cursor of the first response.
C14_Witness ==
  \E r \in Regions :
    /\ Status(r) = "Completed" /\ Len(inventory[r]) = 2
    /\ task[r].requests = <<0, 2>> /\ Len(task[r].yielded) >= 2

\* ------------------------------------------------------------------ C15
CreationErrors ==
  {"Error creating main report file", "Error creating missing tags file",
   "Error creating no owner file"}

\* C15: once the creation of a sink of a region has failed, the task of the
\* region has ended, has sent no request and taken no record, and no sink of
\* the region holds a row, on file or in a buffer.
C15_CreationFailureBeforeScan ==
  \A r \in Regions :
    (\E m \in CreationErrors : HasLog(task[r], m)) =>
      /\ Status(r) = "Failed"
      /\ task[r].requests = <<>> /\ task[r].yielded = <<>>
      /\ \A sink \in SinkKinds : Accepted(r, sink) = <<>>

\* The no-owner file of a region could not be created after its main and
\* missing-tags files were: the task failed and both files are empty.
C15_Witness ==
  \E r \in Regions :
    /\ HasLog(task[r], "Error creating no owner file") /\ Status(r) = "Failed"
    /\ ReportName(r, "missing") \in DOMAIN fs /\ OnDisk(r, "missing") = <<>>
    /\ task[r].sinks["main"].closes = 1

\* ------------------------------------------------------------------ C16
\* C16: in every state each exception counter equals the number of data rows
\* its sink has accepted.
C16_CountersCountAcceptedRows ==
  \A r \in Regions :
    /\ task[r].missingTagsCount = Len(DataRows(r, "missing"))
    /\ task[r].noOwnerCount = Len(DataRows(r, "noowner"))

\* One write to the missing-tags sink failed and another succeeded: the
\* counter is 1 after two untagged records.
C16_Witness ==
  \E r \in Regions :
    /\ HasLog(task[r], "Error writing to missing tags report")
    /\ task[r].missingTagsCount = 1 /\ task[r].noOwnerCount = 2
    /\ Len(task[r].yielded) = 2


\* ------------------------------------------------------------------ C18
RECURSIVE IsSubseq(_, _)
\* a can be had from b by deleting elements.
IsSubseq(a, b) ==
  IF Len(a) = 0 THEN TRUE
  ELSE IF Len(b) = 0 THEN FALSE
  ELSE IF Head(a) = Head(b) THEN IsSubseq(Tail(a), Tail(b))
  ELSE IsSubseq(a, Tail(b))

\* C18: the data rows of each exception sink form a subsequence of the data
\* rows of the main sink of the same region.
C18_ExceptionRowsAmongMainRows ==
  \A r \in Regions : \A sink \in {"missing", "noowner"} :
    IsSubseq(DataRows(r, sink), DataRows(r, "main"))

\* The main sink has two data rows and the missing-tags sink only the second.
C18_Witness ==
  \E r \in Regions :
    /\ Len(DataRows(r, "main")) = 2
    /\ DataRows(r, "missing") = <<DataRows(r, "main")[2]>>
    /\ DataRows(r, "main")[1] # DataRows(r, "main")[2]

\* ------------------------------------------------------------------ C19
\* C19: with both exception sinks active and no failed write to the no-owner
\* sink, missingTagsCount never exceeds noOwnerCount.
C19_MissingTagsAtMostNoOwner ==
  \A r \in Regions :
    (createMissingTagsFile /\ createNoOwnerFile
       /\ ~HasLog(task[r], "Error writing to no owner report")) =>
      task[r].missingTagsCount <= task[r].noOwnerCount

\* A scan with both exception sinks and no failed write ended with one
\* untagged record among two without an owner.
C19_Witness ==
  \E r \in Regions :
    /\ createMissingTagsFile /\ createNoOwnerFile /\ NoRowWriteError(task[r])
    /\ Status(r) = "Completed"
    /\ task[r].missingTagsCount = 1 /\ task[r].noOwnerCount = 2


\* ------------------------------------------------------------------ C17
\* The regions main launches a task for.
Launched == {r \in Regions : \E i \in 1..Len(sections) : sections[i] = r}

\* Every request of region r returns; the request region r waits for never
\* returns.
AlwaysReturns(r) == [](task[r].pc = "request" => <>(task[r].pc # "request"))
NeverReturns(r) == <>[](task[r].pc = "request")

\* C17: under fair scheduling, if every request returns then every launched
\* task ends, Completed or Failed, and main passes the join; if a request of
\* a task never returns then the task never ends and main never passes the
\* join.
C17_JoinIffEveryRequestReturns ==
  /\ (\A r \in Regions : AlwaysReturns(r)) =>
       <>(mainPc = "done" /\ \A r \in Launched : Ended(r))
  /\ \A r \in Regions : NeverReturns(r) => [](~Ended(r) /\ mainPc # "done")

\* main passed the join of two tasks, one Completed and one Failed.
C17_Witness ==
  /\ mainPc = "done"
  /\ \E r \in Launched : Status(r) = "Completed" /\ Len(task[r].requests) = 2
  /\ \E r \in Launched : Status(r) = "Failed" /\ ScanError(r)

====
